---- MODULE Spec2Model ----
(***************************************************************************)
(* The follower check of bsky-followers: src/check.py and src/hello.py.    *)
(* One run logs in, drains the paginated follower listing, looks up the    *)
(* profile's follower count, loads the snapshot file, diffs, reports and   *)
(* overwrites the snapshot file.  Both scripts run the same sequence; they *)
(* differ in hello.py's `assert followers` after the pagination loop and   *)
(* in where `current` is bound.                                            *)
(***************************************************************************)
EXTENDS Naturals, Sequences, FiniteSets, TLC

VARIABLES variant, store, clock, lastSaver, runs,
          pc, error, fs, current, known, diff, out, store0,
          script, fetched

vars == <<variant, store, clock, lastSaver, runs,
          pc, error, fs, current, known, diff, out, store0,
          script, fetched>>

(* ------------------------------ bounds --------------------------------- *)

\* The longest listing the remote serves, in pages.
MaxPages == 2

\* How many runs one process makes one after the other.
MaxRuns == 2

Handles == {"alice", "bob"}

\* The cursor strings a page can carry; "" is a cursor that is present and empty.
Tokens == {"", "c1", "c2"}

Procs == {1, 2}

Variants == {"check", "hello"}

(* --------------------------- Python values ----------------------------- *)

\* Python's None, and a value that is not None.
None == <<>>

Some(x) == <<x>>

Range(s) == {s[i] : i \in 1..Len(s)}

\* `not r.cursor`: None and the empty string are both falsy.
Falsy(c) == c = None \/ c = Some("")

\* list(fs): the elements of a set in some order, each once.
list(S) ==
  {l \in [1..Cardinality(S) -> S] : \A i, j \in 1..Cardinality(S) : l[i] = l[j] => i = j}

\* set(l): the elements of a list, duplicates collapsed.
set(l) == Range(l)

FollowerState(followers, timestamp) ==
  [followers |-> followers, timestamp |-> timestamp]

(* --------------------------- snapshot file ----------------------------- *)

\* The file's content: absent, bytes that are no JSON, or a JSON object with
\* some of the keys "followers" (a list) and "timestamp" (a string or null).
Absent == [kind |-> "absent", keys |-> {}, followers |-> <<>>, timestamp |-> None]

Garbage == [kind |-> "garbage", keys |-> {}, followers |-> <<>>, timestamp |-> None]

Object(keys, followers, timestamp) ==
  [kind |-> "object", keys |-> keys, followers |-> followers, timestamp |-> timestamp]

\* datetime.now().isoformat(): the clock reading as a string (never null).
isoformat(now) == Some(now)

\* to_json({"followers": list(fs), "timestamp": ...}, indent=2)
to_json(followers, timestamp) ==
  Object({"followers", "timestamp"}, followers, timestamp)

\* write_bytes as a writer that keeps what the file held: the old list, then the new.
write_bytes_merging(old, data) ==
  IF old.kind = "object" /\ data.kind = "object"
    THEN [data EXCEPT !.followers = old.followers \o @]
    ELSE data

\* Path.write_bytes: the file is opened "wb", so the new bytes replace the old.
write_bytes(old, data) == data

\* The save with the timestamp left out.
save_without_timestamp(l, now) == to_json(l, None)

\* The bytes save_updated_followers_to_cache / save_current_followers write.
save_updated_followers_to_cache(l, now) == to_json(l, isoformat(now))

\* The load with `except Exception` in place of `except FileNotFoundError`.
load_swallowing_errors(file) ==
  IF file.kind = "object" /\ file.keys = {"followers", "timestamp"}
    THEN [raised |-> "", value |-> FollowerState(set(file.followers), file.timestamp)]
    ELSE [raised |-> "", value |-> FollowerState({}, None)]

\* load_known_followers_from_cache / load_previous_followers on a file's content:
\* what it raises ("" when nothing) and what it returns.
load_known_followers_from_cache(file) ==
  IF file.kind = "absent"
    THEN [raised |-> "", value |-> FollowerState({}, None)]
  ELSE IF file.kind = "garbage"
    THEN [raised |-> "ValueError", value |-> FollowerState({}, None)]
  ELSE IF "followers" \notin file.keys
    THEN [raised |-> "KeyError", value |-> FollowerState({}, None)]
  ELSE IF "timestamp" \notin file.keys
    THEN [raised |-> "KeyError", value |-> FollowerState({}, None)]
  ELSE [raised |-> "", value |-> FollowerState(set(file.followers), file.timestamp)]

\* The files a run can find: absent, unparseable, an object lacking a field,
\* or a snapshot (written by an earlier run, or by hand with a null timestamp).
Files ==
  {Absent, Garbage}
  \cup {Object(k, <<>>, None) : k \in {{}, {"followers"}, {"timestamp"}}}
  \cup {Object({"followers", "timestamp"}, l, t) :
          l \in UNION {list(S) : S \in SUBSET Handles}, t \in {None, Some(0)}}

(* ------------------------------ remote --------------------------------- *)

\* One page of client.get_followers: the handles of r.followers and r.cursor.
Pages ==
  [kind : {"page"}, followers : SUBSET Handles,
   cursor : {None} \cup {Some(t) : t \in Tokens}]

\* A request that raises instead of returning a page.
Raises == [kind |-> "raise", followers |-> {}, cursor |-> None]

\* A response that ends the listing: a page without a cursor, or a failure.
Ends(r) == r.kind = "raise" \/ Falsy(r.cursor)

\* What the remote answers to the first, second, ... request of one listing.
Scripts ==
  UNION {{s \in [1..n -> Pages \cup {Raises}] : Ends(s[n])} : n \in 1..MaxPages}

\* The loop with `cursor = r.cursor` left out: every request goes out with the
\* cursor the loop started with.
RECURSIVE loop_without_cursor_update(_, _, _, _, _)
loop_without_cursor_update(s, n, cur, acc, reqs) ==
  LET r == s[n]
      sent == Append(reqs, cur)
  IN IF r.kind = "raise"
       THEN [raised |-> "FetchError(get_followers)", fs |-> acc, requests |-> sent]
     ELSE IF Falsy(r.cursor)
       THEN [raised |-> "", fs |-> acc \cup r.followers, requests |-> sent]
     ELSE loop_without_cursor_update(s, n + 1, cur, acc \cup r.followers, sent)

\* The `while True` loop from its n-th request on: `cur` is the cursor it holds,
\* `acc` the handles it has, `reqs` the cursors it has sent.
RECURSIVE pagination_loop(_, _, _, _, _)
pagination_loop(s, n, cur, acc, reqs) ==
  LET r == s[n]
      sent == Append(reqs, cur)
  IN IF r.kind = "raise"
       THEN [raised |-> "FetchError(get_followers)", fs |-> acc, requests |-> sent]
     ELSE IF Falsy(r.cursor)
       THEN [raised |-> "", fs |-> acc \cup r.followers, requests |-> sent]
     ELSE pagination_loop(s, n + 1, r.cursor, acc \cup r.followers, sent)

\* hello.py's get_followers ends with `assert followers`; check.py's loop does not.
assert_followers(v, got) ==
  IF v = "hello" /\ got = {} THEN "No followers found" ELSE ""

\* The drained listing: fs, cursor = set(), None; the loop; hello.py's assertion.
get_followers(v, s) ==
  LET r == pagination_loop(s, 1, None, {}, <<>>)
  IN IF r.raised = "" THEN [r EXCEPT !.raised = assert_followers(v, r.fs)] ELSE r

\* What the drained listing can come to, over everything the remote can answer:
\* what it raises and the handles the loop holds by then.
Drained ==
  [v \in Variants |->
     {[raised |-> r.raised, fs |-> r.fs] : r \in {get_followers(v, s) : s \in Scripts}}]

\* get_profile(...).followers_count
Counts == 0..Cardinality(Handles)

(* ------------------------------- output -------------------------------- *)

Msg(kind, args) == [kind |-> kind, args |-> args]

Kinds(o) == {o[i].kind : i \in 1..Len(o)}

\* The count lookup with a mismatch made an error.
count_report_strict(bsky_count, n) ==
  [raised |-> IF bsky_count # n THEN "Discrepancy" ELSE "",
   prints |-> <<Msg("counts", <<bsky_count, n>>)>>
              \o (IF bsky_count # n THEN <<Msg("discrepancy", <<>>)>> ELSE <<>>)]

\* The count lookup's prints: the two counts, and the notice when they differ.
\* It raises nothing on a mismatch.
count_report(bsky_count, n) ==
  [raised |-> "",
   prints |-> <<Msg("counts", <<bsky_count, n>>)>>
              \o (IF bsky_count # n THEN <<Msg("discrepancy", <<>>)>> ELSE <<>>)]

\* The diff with its operands the wrong way round.
Diff_swapped(cur, prev) == [new |-> prev \ cur, lost |-> cur \ prev]

\* new, lost = current - known["followers"], known["followers"] - current
Diff(cur, prev) == [new |-> cur \ prev, lost |-> prev \ cur]

\* The branch of the report: `if not known["followers"]` / `elif new or lost` / else.
ReportKind(prev, d) ==
  IF prev.followers = {} THEN "first_run"
  ELSE IF d.new # {} \/ d.lost # {} THEN "changes"
  ELSE "no_changes"

\* The lines the report prints.
report(cur, prev, d) ==
  LET k == ReportKind(prev, d) IN
  IF k = "first_run" THEN <<Msg("first_run", <<Cardinality(cur)>>)>>
  ELSE IF k = "changes"
    THEN <<Msg("changes", <<Cardinality(d.new), Cardinality(d.lost)>>)>>
         \o (IF d.new # {} THEN <<Msg("new_followers", <<>>)>> ELSE <<>>)
         \o (IF d.lost # {} THEN <<Msg("lost_followers", <<>>)>> ELSE <<>>)
  ELSE <<Msg("no_changes", <<>>)>>

ReportKinds == {"first_run", "changes", "no_changes"}

(* ------------------------------ the flow ------------------------------- *)

\* The flow with the save moved up, before the load.
flow_saving_before_load(step, raised) ==
  IF raised # "" THEN "failed"
  ELSE CASE step = "login" -> "fetch"
         [] step = "fetch" -> "count"
         [] step = "count" -> "save"
         [] step = "save" -> "load"
         [] step = "load" -> "diff"
         [] step = "diff" -> "report"
         [] step = "report" -> "done"

\* The flow with the save moved up, before the report.
flow_saving_before_report(step, raised) ==
  IF raised # "" THEN "failed"
  ELSE CASE step = "login" -> "fetch"
         [] step = "fetch" -> "count"
         [] step = "count" -> "load"
         [] step = "load" -> "diff"
         [] step = "diff" -> "save"
         [] step = "save" -> "report"
         [] step = "report" -> "done"

\* The flow with a failed count lookup caught and ignored.
flow_ignoring_count_failure(step, raised) ==
  IF raised # "" /\ step # "count" THEN "failed"
  ELSE CASE step = "login" -> "fetch"
         [] step = "fetch" -> "count"
         [] step = "count" -> "load"
         [] step = "load" -> "diff"
         [] step = "diff" -> "report"
         [] step = "report" -> "save"
         [] step = "save" -> "done"

\* check_bsky_followers: the step after `step`; an exception nothing catches
\* ends the run.
check_bsky_followers(step, raised) ==
  IF raised # "" THEN "failed"
  ELSE CASE step = "login" -> "fetch"
         [] step = "fetch" -> "count"
         [] step = "count" -> "load"
         [] step = "load" -> "diff"
         [] step = "diff" -> "report"
         [] step = "report" -> "save"
         [] step = "save" -> "done"

Fresh(p, st) ==
  /\ pc' = [pc EXCEPT ![p] = "login"]
  /\ error' = [error EXCEPT ![p] = ""]
  /\ fs' = [fs EXCEPT ![p] = {}]
  /\ current' = [current EXCEPT ![p] = None]
  /\ known' = [known EXCEPT ![p] = None]
  /\ diff' = [diff EXCEPT ![p] = None]
  /\ out' = [out EXCEPT ![p] = <<>>]
  /\ store0' = [store0 EXCEPT ![p] = st]

InitOn(active) ==
  /\ variant \in Variants
  /\ clock = 1
  /\ lastSaver = 0
  /\ runs = [p \in Procs |-> IF p \in active THEN 1 ELSE 0]
  /\ pc = [p \in Procs |-> IF p \in active THEN "login" ELSE "off"]
  /\ error = [p \in Procs |-> ""]
  /\ fs = [p \in Procs |-> {}]
  /\ current = [p \in Procs |-> None]
  /\ known = [p \in Procs |-> None]
  /\ diff = [p \in Procs |-> None]
  /\ out = [p \in Procs |-> <<>>]
  /\ store0 = [p \in Procs |-> store]
  /\ fetched = None

\* One invocation of the script, then the next.
Init == store \in Files /\ script = <<>> /\ InitOn({1})

\* Two invocations at once on the same snapshot path.
InitConc == store \in Files /\ script = <<>> /\ InitOn({1, 2})

\* The pagination alone, against a scripted remote.
InitFetch == store = Absent /\ script \in Scripts /\ InitOn({})

\* A step's end: the next step, or the failure recorded.
Goto(p, step, raised) ==
  /\ pc' = [pc EXCEPT ![p] = check_bsky_followers(step, raised)]
  /\ error' = [error EXCEPT ![p] = IF raised # "" THEN raised ELSE @]

\* client.login(...) and `assert client.me`
Login(p) ==
  /\ pc[p] = "login"
  /\ \E raised \in {"", "AuthError", "Login failed"} : Goto(p, "login", raised)
  /\ UNCHANGED <<variant, store, clock, lastSaver, runs, fs, current, known, diff,
                 out, store0, script, fetched>>

\* The pagination loop, run to its end against what the remote answers.  In
\* hello.py current_followers is bound once get_followers has returned; in
\* check.py `current` is bound when the whole fetch task has.
GetFollowers(p) ==
  /\ pc[p] = "fetch"
  /\ \E r \in Drained[variant] :
       /\ fs' = [fs EXCEPT ![p] = r.fs]
       /\ Goto(p, "fetch", r.raised)
       /\ current' = [current EXCEPT ![p] =
            IF variant = "hello" /\ r.raised = "" THEN Some(r.fs) ELSE None]
  /\ UNCHANGED <<variant, store, clock, lastSaver, runs, known, diff, out, store0,
                 script, fetched>>

\* client.get_profile(...).followers_count and the prints that follow it.
GetProfile(p) ==
  /\ pc[p] = "count"
  /\ \E bsky_count \in Counts :
       LET r == count_report(bsky_count, Cardinality(fs[p])) IN
       /\ out' = [out EXCEPT ![p] = @ \o r.prints]
       /\ Goto(p, "count", r.raised)
       /\ current' = [current EXCEPT ![p] = IF r.raised = "" THEN Some(fs[p]) ELSE @]
  /\ UNCHANGED <<variant, store, clock, lastSaver, runs, fs, known, diff, store0,
                 script, fetched>>

\* client.get_profile raises.
GetProfileFails(p) ==
  /\ pc[p] = "count"
  /\ Goto(p, "count", "FetchError(get_profile)")
  /\ UNCHANGED <<variant, store, clock, lastSaver, runs, fs, current, known, diff,
                 out, store0, script, fetched>>

\* known = load_known_followers_from_cache(settings)
Load(p) ==
  /\ pc[p] = "load"
  /\ LET r == load_known_followers_from_cache(store) IN
       /\ Goto(p, "load", r.raised)
       /\ known' = [known EXCEPT ![p] = IF r.raised = "" THEN Some(r.value) ELSE @]
  /\ UNCHANGED <<variant, store, clock, lastSaver, runs, fs, current, diff, out,
                 store0, script, fetched>>

\* new, lost = ...
ComputeDiff(p) ==
  /\ pc[p] = "diff"
  /\ diff' = [diff EXCEPT ![p] = Some(Diff(current[p][1], known[p][1].followers))]
  /\ Goto(p, "diff", "")
  /\ UNCHANGED <<variant, store, clock, lastSaver, runs, fs, current, known, out,
                 store0, script, fetched>>

\* The if / elif / else of prints.
Report(p) ==
  /\ pc[p] = "report"
  /\ out' = [out EXCEPT ![p] = @ \o report(current[p][1], known[p][1], diff[p][1])]
  /\ Goto(p, "report", "")
  /\ UNCHANGED <<variant, store, clock, lastSaver, runs, fs, current, known, diff,
                 store0, script, fetched>>

\* save_updated_followers_to_cache(current, settings)
Save(p) ==
  /\ pc[p] = "save"
  /\ \E l \in list(current[p][1]) :
       store' = write_bytes(store, save_updated_followers_to_cache(l, clock))
  /\ clock' = clock + 1
  /\ lastSaver' = p
  /\ Goto(p, "save", "")
  /\ UNCHANGED <<variant, runs, fs, current, known, diff, out, store0, script,
                 fetched>>

\* write_bytes raises: the open failed (file untouched) or the write failed after
\* the open truncated the file.
SaveFails(p) ==
  /\ pc[p] = "save"
  /\ store' \in {store, Garbage}
  /\ Goto(p, "save", "OSError")
  /\ UNCHANGED <<variant, clock, lastSaver, runs, fs, current, known, diff, out,
                 store0, script, fetched>>

\* The script is invoked again.
Restart(p) ==
  /\ pc[p] \in {"done", "failed"}
  /\ runs[p] < MaxRuns
  /\ runs' = [runs EXCEPT ![p] = @ + 1]
  /\ Fresh(p, store)
  /\ UNCHANGED <<variant, store, clock, lastSaver, script, fetched>>

\* The pagination applied to the scripted remote.
Drain ==
  /\ fetched = None
  /\ fetched' = Some(get_followers(variant, script))
  /\ UNCHANGED <<variant, store, clock, lastSaver, runs, pc, error, fs, current,
                 known, diff, out, store0, script>>

Step(p) ==
  \/ Login(p)
  \/ GetFollowers(p)
  \/ GetProfile(p)
  \/ GetProfileFails(p)
  \/ Load(p)
  \/ ComputeDiff(p)
  \/ Report(p)
  \/ Save(p)
  \/ SaveFails(p)

Next == \E p \in Procs : Step(p) \/ Restart(p)

NextConc == \E p \in Procs : Step(p)

NextFetch == Drain

Spec == Init /\ [][Next]_vars

SpecConc == InitConc /\ [][NextConc]_vars

SpecFetch == InitFetch /\ [][NextFetch]_vars

(* ------------------------------ claims --------------------------------- *)

\* What a report prints first.
Reported(p) == Kinds(out[p]) \cap ReportKinds

\* The remote's count and the number of handles fetched, as printed, differ.
CountsDiffer(p) ==
  \E i \in 1..Len(out[p]) : out[p][i].kind = "counts" /\ out[p][i].args[1] # out[p][i].args[2]

\* C1: the snapshot file changes only in a run's save step, and by then the run
\* has fetched (current is bound), has loaded the previous snapshot from that
\* very file, and has computed new and lost from the loaded value.
C1_SaveOnlyAfterLoadAndDiff ==
  [][store' # store =>
       \E p \in Procs :
         /\ pc[p] = "save"
         /\ current[p] # None
         /\ known[p] # None
         /\ diff[p] # None
         /\ load_known_followers_from_cache(store).raised = ""
         /\ known[p][1] = load_known_followers_from_cache(store).value
         /\ diff[p][1].new = current[p][1] \ known[p][1].followers
         /\ diff[p][1].lost = known[p][1].followers \ current[p][1]]_vars

\* C1 witness: a run has replaced a snapshot that held other handles.
C1_Witness ==
  /\ pc[1] = "done"
  /\ store0[1].kind = "object"
  /\ store # store0[1]
  /\ diff[1] # None /\ diff[1][1].lost # {}

FetchErrors == {"AuthError", "Login failed", "FetchError(get_followers)", "FetchError(get_profile)"}

\* C2: a run in which login, a page request or the count lookup failed has
\* aborted, and the snapshot file is what it was when the run began.
C2_FetchFailureLeavesStore ==
  \A p \in Procs :
    error[p] \in FetchErrors => pc[p] = "failed" /\ store = store0[p]

\* C2 witness: a page request failed after an earlier page had delivered handles,
\* over a snapshot that exists.
C2_Witness ==
  /\ error[1] = "FetchError(get_followers)"
  /\ fs[1] # {}
  /\ store.kind = "object" /\ store.timestamp # None

\* C3: once a run has completed, loading the file raises nothing and returns
\* exactly the set the run fetched, with a timestamp that is not null.
C3_SavedSnapshotIsFetchedSet ==
  \A p \in Procs :
    pc[p] = "done" =>
      LET r == load_known_followers_from_cache(store) IN
      /\ r.raised = ""
      /\ r.value.followers = current[p][1]
      /\ r.value.timestamp # None

\* C3 witness: a second run is done, its previous snapshot (the first run's) held
\* a handle that was not fetched again.
C3_Witness ==
  /\ pc[1] = "done"
  /\ runs[1] = 2
  /\ known[1] # None /\ known[1][1].followers \ current[1][1] # {}
  /\ current[1][1] # {}

\* C4: a handle is in new exactly when it is fetched and was not stored, in lost
\* exactly when it was stored and is not fetched; no handle is in both, and both
\* are empty when the fetched and the stored sets are equal.
C4_DiffIsSetDifference ==
  \A p \in Procs :
    diff[p] # None =>
      LET cur == current[p][1]
          prev == known[p][1].followers
          d == diff[p][1]
      IN /\ \A h \in Handles : h \in d.new <=> (h \in cur /\ h \notin prev)
         /\ \A h \in Handles : h \in d.lost <=> (h \in prev /\ h \notin cur)
         /\ d.new \cap d.lost = {}
         /\ cur = prev => d.new = {} /\ d.lost = {}

\* C4 witness: a diff with a new and a lost handle.
C4_Witness ==
  /\ diff[1] # None
  /\ diff[1][1].new # {}
  /\ diff[1][1].lost # {}

\* C5: the report is the first-run message exactly when the loaded snapshot has no
\* followers and a null timestamp; otherwise the changes message when new or lost
\* is non-empty, and the no-changes message when both are empty.
C5_FirstRunOnlyWithoutTimestamp ==
  \A p \in Procs :
    Reported(p) # {} =>
      LET prev == known[p][1]
          d == diff[p][1]
      IN Reported(p) =
           IF prev.followers = {} /\ prev.timestamp = None THEN {"first_run"}
           ELSE IF d.new # {} \/ d.lost # {} THEN {"changes"}
           ELSE {"no_changes"}

\* The pages of a script are all pages, and the last one alone has no cursor.
LastPageAloneHasNoCursor(s) ==
  /\ \A i \in 1..Len(s) : s[i].kind = "page"
  /\ \A i \in 1..Len(s) : Falsy(s[i].cursor) <=> i = Len(s)

\* The cursors the loop is to send: none, then each page's cursor in turn.
CursorsDue(s) == [i \in 1..Len(s) |-> IF i = 1 THEN None ELSE s[i - 1].cursor]

AllHandles(s) == UNION {s[i].followers : i \in 1..Len(s)}

\* The first response of a script that has no cursor or is a failure.
FirstEnd(s) == CHOOSE i \in 1..Len(s) : Ends(s[i]) /\ \A j \in 1..(i - 1) : ~Ends(s[j])

\* C6 as stated: over pages of which the last alone has no cursor, the loop sends
\* no cursor and then each page's cursor, makes one request per page, and returns
\* the union of the pages' handles.
C6_LoopReturnsUnion ==
  (fetched # None /\ LastPageAloneHasNoCursor(script)) =>
     /\ fetched[1].requests = CursorsDue(script)
     /\ fetched[1].raised = ""
     /\ fetched[1].fs = AllHandles(script)

\* C6 amended: the same, except that hello.py's get_followers raises "No followers
\* found" instead of returning when the pages hold no handle at all.  Whatever the
\* remote answers, the loop makes no request after the first page without a cursor.
C6_LoopReturnsUnionUnlessEmpty ==
  /\ fetched # None => Len(fetched[1].requests) = FirstEnd(script)
  /\ (fetched # None /\ LastPageAloneHasNoCursor(script)) =>
     /\ fetched[1].requests = CursorsDue(script)
     /\ fetched[1].fs = AllHandles(script)
     /\ fetched[1].raised =
          IF variant = "hello" /\ AllHandles(script) = {} THEN "No followers found" ELSE ""

\* C6 witness: two pages drained, the first with a cursor, each with its own handle.
C6_Witness ==
  /\ fetched # None
  /\ LastPageAloneHasNoCursor(script)
  /\ Len(script) = 2
  /\ script[1].followers # {} /\ script[2].followers \ script[1].followers # {}
  /\ fetched[1].raised = ""

\* The file holds a snapshot that has no followers and a null timestamp.
HoldsEmptySnapshot(file) ==
  /\ file.kind = "object"
  /\ file.keys = {"followers", "timestamp"}
  /\ file.followers = <<>>
  /\ file.timestamp = None

\* The file is there, and is no JSON or lacks a field.
Unreadable(file) ==
  \/ file.kind = "garbage"
  \/ file.kind = "object" /\ file.keys # {"followers", "timestamp"}

C8_DiscrepancyIsNotFatal ==
  \A p \in Procs :
    CountsDiffer(p) =>
      /\ "discrepancy" \in Kinds(out[p])
      /\ pc[p] # "count"
      /\ error[p] \in {"", "ValueError", "KeyError", "OSError"}
      /\ pc[p] = "done" =>
           /\ known[p] # None /\ diff[p] # None /\ Reported(p) # {}
           /\ store \in {to_json(l, Some(clock - 1)) : l \in list(current[p][1])}

\* C8 witness: a run with differing counts is done.
C8_Witness ==
  /\ CountsDiffer(1)
  /\ pc[1] = "done"
  /\ current[1][1] # {}

\* C9: a run that is at its save, or whose write failed, has printed its report;
\* and a run whose write failed has ended as failed.
C9_ReportBeforeSave ==
  \A p \in Procs :
    /\ (pc[p] = "save" \/ error[p] = "OSError") => Reported(p) # {}
    /\ error[p] = "OSError" => pc[p] = "failed"
    /\ pc[p] = "done" => Reported(p) # {}

\* C9 witness: a write failed after a report of changes.
C9_Witness ==
  /\ error[1] = "OSError"
  /\ "changes" \in Reported(1)

\* C10: when both of two concurrent runs are done, the file holds exactly the set
\* fetched by the run that saved last.
C10_LastWriterWins ==
  (pc[1] = "done" /\ pc[2] = "done") =>
     LET r == load_known_followers_from_cache(store) IN
     /\ r.raised = ""
     /\ r.value.followers = current[lastSaver][1]

\* C10 witness: both runs are done, neither fetched set holds the other, both
\* loaded the same earlier snapshot before either saved, and run 1 saved last.
C10_Witness ==
  /\ pc[1] = "done" /\ pc[2] = "done"
  /\ current[1][1] \ current[2][1] # {}
  /\ current[2][1] \ current[1][1] # {}
  /\ lastSaver = 1
  /\ known[1][1] = known[2][1]
  /\ known[1][1].followers # {}

====
